---- MODULE Spec2Model ----
(***************************************************************************)
(* Model of uploader.py: the credential-set command, the upload handler    *)
(* and the three MongoDB collections they work on.                          *)
(*                                                                          *)
(* Handlers are coroutines of one asyncio event loop.  pymongo and         *)
(* requests calls are blocking, so the code between two awaits runs as one *)
(* atomic step; handlers of different events interleave at the awaits      *)
(* (msg.copy and msg.reply_text).  Every call that leaves the process (a   *)
(* collection operation, a Telegram call, the HTTP call) may raise.        *)
(***************************************************************************)
EXTENDS Integers, Sequences, FiniteSets, TLC

\* Number of inbound events (uploads and /set_api commands) a run handles.
MaxEvents == 2
\* Number of distinct ids the sampled generator can draw.
DrawBound == 2

Users == {1, 2}
ApiKeys == {"k1", "k2"}
ShortUrls == {"https://viralbox.in/abc123"}

\* Python's None where a document is expected, and where a string is.
None == [none |-> TRUE]
NoString == "<None>"
NoReplyTo == 0

WORKER_DOMAIN == "https://worker.example"

SetApiFirstText == "Please set your API key first!"
UsageText == "Usage: /set_api <API_KEY>"
SavedText == "API Key saved successfully!"
ShortenFailedText == "URL shortening failed! Please check your API key."
UploadFailedText == "Upload failed! Please try again later."

Range(s) == {s[i] : i \in DOMAIN s}

ascii_letters ==
    << "a", "b", "c", "d", "e", "f", "g", "h", "i", "j", "k", "l", "m",
       "n", "o", "p", "q", "r", "s", "t", "u", "v", "w", "x", "y", "z",
       "A", "B", "C", "D", "E", "F", "G", "H", "I", "J", "K", "L", "M",
       "N", "O", "P", "Q", "R", "S", "T", "U", "V", "W", "X", "Y", "Z" >>

digits == << "0", "1", "2", "3", "4", "5", "6", "7", "8", "9" >>

chars == ascii_letters \o digits

DefaultLength == 6

\* Longest id for which every result of the generator is enumerated.
MaxLength == 2

\* random.choices with one element too many.
random_choices_plus(population, k) == [1..(k + 1) -> Range(population)]

\* random.choices(population, k=k): every sequence of k elements of it.
random_choices(population, k) == [1..k -> Range(population)]

\* The results random.choices(chars, k=length) can give, sampled: the ids
\* that differ from chars[1]^length in their last character only, DrawBound
\* of them.  Nothing makes two calls draw different ids.
generate_mapping_id(length) ==
    { [i \in 1..length |-> chars[IF i = length THEN c ELSE 1]] : c \in 1..DrawBound }

\* The worker link built without the separator.
worker_link_of_noslash(mapping_id) == <<WORKER_DOMAIN>> \o mapping_id

\* f"{WORKER_DOMAIN}/{mapping_id}"
worker_link_of(mapping_id) == <<WORKER_DOMAIN, "/">> \o mapping_id

----------------------------------------------------------------------------
\* The collections: sequences of documents in insertion order.

\* collection.find_one({field: value}): the first matching document, or None.
find_one(col, field, value) ==
    LET hits == {i \in DOMAIN col : field \in DOMAIN col[i] /\ col[i][field] = value}
    IN  IF hits = {} THEN None
        ELSE col[CHOOSE i \in hits : \A j \in hits : i <= j]

\* collection.insert_one(doc): no index is declared on any collection, so
\* the document is appended whatever the collection holds.
insert_one(col, doc) == Append(col, doc)

\* The upsert written as a plain insert.
update_one_insert(col, user_id, api_key) ==
    Append(col, [userId |-> user_id, apiKey |-> api_key])

\* The upsert with $setOnInsert in place of $set: a stored document is kept.
update_one_setOnInsert(col, user_id, api_key) ==
    IF \E i \in DOMAIN col : col[i].userId = user_id THEN col
    ELSE Append(col, [userId |-> user_id, apiKey |-> api_key])

\* user_apis_col.update_one({"userId": u}, {"$set": {"userId": u,
\* "apiKey": k}}, upsert=True): sets the fields of the first match, inserts
\* the document when there is none.
update_one_upsert(col, user_id, api_key) ==
    LET hits == {i \in DOMAIN col : col[i].userId = user_id}
        doc  == [userId |-> user_id, apiKey |-> api_key]
    IN  IF hits = {} THEN Append(col, doc)
        ELSE LET first == CHOOSE i \in hits : \A j \in hits : i <= j
             IN  [col EXCEPT ![first] = doc]

\* `user_api and "apiKey" in user_api`
HasApiKey(user_api) == user_api # None /\ "apiKey" \in DOMAIN user_api

----------------------------------------------------------------------------
\* The shortening service's answers to one GET, as requests sees them.

Get(data, key, default) == IF key \in DOMAIN data THEN data[key] ELSE default

Responses ==
    {[kind |-> "json_dict", data |-> [status |-> "success", shortenedUrl |-> s]] :
        s \in ShortUrls \cup {""}}
    \cup {[kind |-> "json_dict", data |-> [status |-> "success"]],
          [kind |-> "json_dict", data |-> [status |-> "failure"]],
          [kind |-> "json_dict", data |-> [status |-> "error",
                                           shortenedUrl |-> "https://viralbox.in/abc123"]],
          [kind |-> "json_dict", data |-> [message |-> "invalid api"]],
          [kind |-> "json_other", data |-> None],
          [kind |-> "malformed", data |-> None],
          [kind |-> "network_error", data |-> None],
          [kind |-> "timeout", data |-> None]}

\* shorten_url without the test of the status field.
shorten_url_nostatus(api_key, long_url, response) ==
    IF response.kind # "json_dict" THEN ""
    ELSE Get(response.data, "shortenedUrl", "")

\* shorten_url: "" stands for failure.  Anything but a JSON object raises
\* inside the try and is turned into "".
shorten_url(api_key, long_url, response) ==
    IF response.kind # "json_dict" THEN ""
    ELSE IF Get(response.data, "status", NoString) = "success"
         THEN Get(response.data, "shortenedUrl", "")
         ELSE ""

----------------------------------------------------------------------------
VARIABLES
    user_apis,      \* user_apis_col
    mappings_col,   \* mappings_col
    links_col,      \* links_col
    channel,        \* the storage channel: inbound message id of each copy
    ev,             \* the handler invocation of each event
    dispatched,     \* number of events handed to a handler so far
    lastSet,        \* history: the key of each user's last applied /set_api
    util            \* a call of a UTIL function made on its own, with its result

vars == <<user_apis, mappings_col, links_col, channel, ev, dispatched, lastSet, util>>

Events == 1..MaxEvents

\* pc: "new" not dispatched; "copy" awaiting msg.copy; "reply" awaiting a
\* reply_text inside the try block; "reply_x" awaiting a reply_text outside
\* it; "done" the handler returned; "raised" an exception left the handler.
NewEvent ==
    [kind |-> "none", user |-> 0, pc |-> "new", outcome |-> "none",
     api_key |-> NoString, stored_msg_id |-> 0, mapping_id |-> <<>>,
     worker_link |-> <<>>, shorten_key |-> NoString, short_url |-> "",
     replies |-> <<>>,
     steps |-> <<>>, mapIdx |-> 0, linkIdx |-> 0]

Step(rec, op, ok) == [rec EXCEPT !.steps = Append(@, [op |-> op, ok |-> ok])]

\* msg.reply_text(text, reply_to_message_id=reply_to) is called.
ReplyText(rec, text, reply_to) ==
    [rec EXCEPT !.replies = Append(@, [text |-> text, reply_to |-> reply_to])]

\* What user_apis_col can hold when the process starts: what earlier runs
\* stored (a /set_api of user 1), and a document without apiKey, which the
\* handlers test for.
InitialUserApis ==
    { <<>>, <<[userId |-> 1, apiKey |-> "k1"], [userId |-> 2]>> }

Init ==
    /\ user_apis \in InitialUserApis
    /\ mappings_col = <<>>
    /\ links_col = <<>>
    /\ channel = <<>>
    /\ ev = [e \in Events |-> NewEvent]
    /\ dispatched = 0
    /\ lastSet = [u \in Users |->
                    IF HasApiKey(find_one(user_apis, "userId", u))
                    THEN find_one(user_apis, "userId", u).apiKey ELSE NoString]
    /\ util = [fn |-> "none"]

----------------------------------------------------------------------------
\* set_api_handler

\* context.args of a /set_api command: the words after the command.
Args == {<<>>} \cup {<<k>> : k \in ApiKeys} \cup {<<"k1", "k2">>}

\* set_api_handler up to its await: the usage reply when there is no
\* argument, else the upsert of args[0] and the confirmation.
set_api_handler(rec, args, db_ok) ==
    IF args = <<>>
    THEN [ReplyText(rec, UsageText, NoReplyTo) EXCEPT !.pc = "reply_x", !.outcome = "Usage"]
    ELSE IF ~db_ok
    THEN [Step(rec, "update_one", FALSE) EXCEPT !.pc = "raised"]
    ELSE [ReplyText(Step(rec, "update_one", TRUE), SavedText, NoReplyTo)
            EXCEPT !.pc = "reply_x", !.outcome = "Saved"]

\* set_api_handler storing an empty key when the command has no argument.
set_api_store_blank(col, user_id, args, db_ok) ==
    IF ~db_ok THEN col
    ELSE update_one_upsert(col, user_id, IF args = <<>> THEN "" ELSE args[1])

\* What set_api_handler leaves in user_apis_col: nothing new without an
\* argument or when update_one raised, else the upsert of args[0].
set_api_store(col, user_id, args, db_ok) ==
    IF args = <<>> \/ ~db_ok THEN col
    ELSE update_one_upsert(col, user_id, args[1])

SetApi(u, args) ==
    /\ dispatched < MaxEvents
    /\ \E db_ok \in BOOLEAN :
        LET e    == dispatched + 1
            rec0 == [NewEvent EXCEPT !.kind = "set_api", !.user = u]
            applied == args # <<>> /\ db_ok
        IN  /\ dispatched' = e
            /\ ev' = [ev EXCEPT ![e] = set_api_handler(rec0, args, db_ok)]
            /\ user_apis' = set_api_store(user_apis, u, args, db_ok)
            /\ lastSet' = IF applied THEN [lastSet EXCEPT ![u] = args[1]] ELSE lastSet
    /\ UNCHANGED <<mappings_col, links_col, channel, util>>

----------------------------------------------------------------------------
\* upload_media

\* The catch-all with its reply sent as a plain message.
ExceptHandler_plain(rec, msg_id) ==
    [ReplyText(rec, UploadFailedText, NoReplyTo)
        EXCEPT !.pc = "reply_x", !.outcome = "UploadFailed"]

\* The catch-all of upload_media: the generic reply, then the handler ends.
ExceptHandler(rec, msg_id) ==
    [ReplyText(rec, UploadFailedText, msg_id)
        EXCEPT !.pc = "reply_x", !.outcome = "UploadFailed"]

\* The credential check without its return: the handler goes on to the copy.
upload_media_start_noreturn(rec, user_api) ==
    IF ~HasApiKey(user_api)
    THEN [ReplyText(Step(rec, "find_one", TRUE), SetApiFirstText, NoReplyTo)
            EXCEPT !.pc = "copy"]
    ELSE [Step(rec, "find_one", TRUE) EXCEPT !.api_key = user_api.apiKey, !.pc = "copy"]

\* upload_media before the try block: the credential check.  With a key the
\* handler goes on to await msg.copy.
upload_media_start(rec, user_api) ==
    IF ~HasApiKey(user_api)
    THEN [ReplyText(Step(rec, "find_one", TRUE), SetApiFirstText, NoReplyTo)
            EXCEPT !.pc = "reply_x", !.outcome = "NoCredential"]
    ELSE [Step(rec, "find_one", TRUE) EXCEPT !.api_key = user_api.apiKey, !.pc = "copy"]

\* upload_media with the credential looked up without the userId filter.
StartUpload_nofilter(u) ==
    /\ dispatched < MaxEvents
    /\ \E db_ok \in BOOLEAN :
        LET e    == dispatched + 1
            rec0 == [NewEvent EXCEPT !.kind = "upload", !.user = u]
        IN  /\ dispatched' = e
            /\ ev' = [ev EXCEPT ![e] =
                        IF db_ok
                        THEN upload_media_start(rec0,
                                IF user_apis = <<>> THEN None ELSE user_apis[1])
                        ELSE [Step(rec0, "find_one", FALSE) EXCEPT !.pc = "raised"]]
    /\ UNCHANGED <<user_apis, mappings_col, links_col, channel, lastSet, util>>

StartUpload(u) ==
    /\ dispatched < MaxEvents
    /\ \E db_ok \in BOOLEAN :
        LET e    == dispatched + 1
            rec0 == [NewEvent EXCEPT !.kind = "upload", !.user = u]
        IN  /\ dispatched' = e
            /\ ev' = [ev EXCEPT ![e] =
                        IF db_ok
                        THEN upload_media_start(rec0, find_one(user_apis, "userId", u))
                        ELSE [Step(rec0, "find_one", FALSE) EXCEPT !.pc = "raised"]]
    /\ UNCHANGED <<user_apis, mappings_col, links_col, channel, lastSet, util>>

\* What a step of the try block works on.
World(rec, mappings, links, chan) ==
    [rec |-> rec, mappings |-> mappings, links |-> links, channel |-> chan]

\* Steps 6 and 7: the link record and the reply with the short url.
SaveLinkAndReply(w, msg_id, link_ok) ==
    IF ~link_ok
    THEN [w EXCEPT !.rec = ExceptHandler(Step(w.rec, "insert_link", FALSE), msg_id)]
    ELSE [w EXCEPT
            !.links = insert_one(w.links, [longURL  |-> w.rec.worker_link,
                                           shortURL |-> w.rec.short_url]),
            !.rec = [ReplyText(Step(w.rec, "insert_link", TRUE), w.rec.short_url, msg_id)
                        EXCEPT !.pc = "reply", !.outcome = "Completed",
                               !.linkIdx = Len(w.links) + 1]]

\* Steps 4 and 5 without the test of short_url.
ShortenStep_nocheck(w, msg_id, short, link_ok) ==
    LET link  == worker_link_of(w.rec.mapping_id)
        rec1  == [Step(w.rec, "shorten", short # "")
                    EXCEPT !.worker_link = link, !.shorten_key = w.rec.api_key,
                           !.short_url = short]
    IN  SaveLinkAndReply([w EXCEPT !.rec = rec1], msg_id, link_ok)

\* Steps 4 and 5 with the shortening call made a second time when the
\* first gave nothing.
ShortenStep_retry(w, msg_id, short, link_ok) ==
    LET link  == worker_link_of(w.rec.mapping_id)
        rec1  == [Step(w.rec, "shorten", short # "")
                    EXCEPT !.worker_link = link, !.shorten_key = w.rec.api_key,
                           !.short_url = short]
    IN  IF short = ""
        THEN [w EXCEPT !.rec = [ReplyText(Step(rec1, "shorten", FALSE),
                                          ShortenFailedText, msg_id)
                                  EXCEPT !.pc = "reply", !.outcome = "ShorteningFailed"]]
        ELSE SaveLinkAndReply([w EXCEPT !.rec = rec1], msg_id, link_ok)

\* Steps 4 and 5: the worker link, the shortening call (short is what
\* shorten_url(api_key, worker_link) returned) and the reply when it
\* returned nothing.
ShortenStep(w, msg_id, short, link_ok) ==
    LET link  == worker_link_of(w.rec.mapping_id)
        rec1  == [Step(w.rec, "shorten", short # "")
                    EXCEPT !.worker_link = link, !.shorten_key = w.rec.api_key,
                           !.short_url = short]
    IN  IF short = ""
        THEN [w EXCEPT !.rec = [ReplyText(rec1, ShortenFailedText, msg_id)
                                  EXCEPT !.pc = "reply", !.outcome = "ShorteningFailed"]]
        ELSE SaveLinkAndReply([w EXCEPT !.rec = rec1], msg_id, link_ok)

\* Steps 2 and 3 with the insert left out: the id is drawn and used.
SaveMapping_noinsert(w, msg_id, id, ins_ok, short, link_ok) ==
    ShortenStep([w EXCEPT !.rec = [w.rec EXCEPT !.mapping_id = id]],
                msg_id, short, link_ok)

\* Steps 2 and 3: the id drawn and the mapping record inserted.
SaveMapping(w, msg_id, id, ins_ok, short, link_ok) ==
    LET rec1 == [w.rec EXCEPT !.mapping_id = id]
    IN  IF ~ins_ok
        THEN [w EXCEPT !.rec = ExceptHandler(Step(rec1, "insert_mapping", FALSE), msg_id)]
        ELSE ShortenStep(
                [w EXCEPT
                    !.mappings = insert_one(w.mappings,
                                    [mapping |-> id, message_id |-> w.rec.stored_msg_id]),
                    !.rec = [Step(rec1, "insert_mapping", TRUE)
                                EXCEPT !.mapIdx = Len(w.mappings) + 1]],
                msg_id, short, link_ok)

\* The try block with the failure of msg.copy swallowed.
upload_media_try_swallow(w, msg_id, copy_ok, id, ins_ok, short, link_ok) ==
    SaveMapping([w EXCEPT !.rec = Step(w.rec, "copy", copy_ok)],
                msg_id, id, ins_ok, short, link_ok)

\* The try block from the return of msg.copy to the next await.
upload_media_try(w, msg_id, copy_ok, id, ins_ok, short, link_ok) ==
    IF ~copy_ok
    THEN [w EXCEPT !.rec = ExceptHandler(Step(w.rec, "copy", FALSE), msg_id)]
    ELSE LET chan == Append(w.channel, msg_id)
         IN  SaveMapping(
                [w EXCEPT !.channel = chan,
                          !.rec = [Step(w.rec, "copy", TRUE) EXCEPT !.stored_msg_id = Len(chan)]],
                msg_id, id, ins_ok, short, link_ok)

\* How the calls of the try block can turn out: msg.copy returns or raises,
\* the id drawn, the mapping insert returns or raises, what shorten_url
\* returns for some answer of the service, the link insert returns or
\* raises.  A call that is not reached has no outcome to choose.
TryOutcomes(api_key) ==
    LET ids == generate_mapping_id(DefaultLength)
        id0 == CHOOSE id \in ids : TRUE
        shorts(id) == {shorten_url(api_key, worker_link_of(id), r) : r \in Responses}
    IN  {<<FALSE, id0, TRUE, "", TRUE>>}
        \cup {<<TRUE, id, FALSE, "", TRUE>> : id \in ids}
        \cup UNION {{<<TRUE, id, TRUE, short, TRUE>> : short \in shorts(id)} : id \in ids}
        \cup UNION {{<<TRUE, id, TRUE, short, FALSE>> : short \in shorts(id) \ {""}} :
                        id \in ids}

CopyReturn(e) ==
    /\ ev[e].pc = "copy"
    /\ \E o \in TryOutcomes(ev[e].api_key) :
        LET w == upload_media_try(World(ev[e], mappings_col, links_col, channel),
                                  e, o[1], o[2], o[3], o[4], o[5])
        IN  /\ ev' = [ev EXCEPT ![e] = w.rec]
            /\ mappings_col' = w.mappings
            /\ links_col' = w.links
            /\ channel' = w.channel
    /\ UNCHANGED <<user_apis, dispatched, lastSet, util>>

\* An awaited reply_text returns or raises.  Inside the try block the
\* catch-all takes the exception; elsewhere it leaves the handler.
reply_returned(rec, msg_id, ok) ==
    IF ok THEN [Step(rec, "reply", TRUE) EXCEPT !.pc = "done"]
    ELSE IF rec.pc = "reply" THEN ExceptHandler(Step(rec, "reply", FALSE), msg_id)
    ELSE [Step(rec, "reply", FALSE) EXCEPT !.pc = "raised"]

ReplyReturn(e) ==
    /\ ev[e].pc \in {"reply", "reply_x"}
    /\ \E ok \in BOOLEAN : ev' = [ev EXCEPT ![e] = reply_returned(ev[e], e, ok)]
    /\ UNCHANGED <<user_apis, mappings_col, links_col, channel, dispatched, lastSet, util>>

Next ==
    \/ \E u \in Users : \E args \in Args : SetApi(u, args)
    \/ \E u \in Users : StartUpload(u)
    \/ \E e \in Events : CopyReturn(e)
    \/ \E e \in Events : ReplyReturn(e)

Spec == Init /\ [][Next]_vars

----------------------------------------------------------------------------
\* The UTIL functions called on their own, over all their inputs: one call
\* in a run.

\* generate_mapping_id(length): every result for the short lengths, the
\* sampled results for the default length.
GenerateCall ==
    /\ util.fn = "none"
    /\ \E length \in (0..MaxLength) \cup {DefaultLength} :
       \E id \in (IF length <= MaxLength THEN random_choices(chars, length)
                                        ELSE generate_mapping_id(length)) :
          util' = [fn |-> "generate_mapping_id", length |-> length, result |-> id]
    /\ UNCHANGED <<user_apis, mappings_col, links_col, channel, ev, dispatched, lastSet>>

\* shorten_url(api_key, long_url) against every answer of the service.
ShortenCall ==
    /\ util.fn = "none"
    /\ \E k \in ApiKeys \cup {""} :
       \E id \in generate_mapping_id(DefaultLength) :
       \E r \in Responses :
          util' = [fn |-> "shorten_url", api_key |-> k, long_url |-> worker_link_of(id),
                   response |-> r, result |-> shorten_url(k, worker_link_of(id), r)]
    /\ UNCHANGED <<user_apis, mappings_col, links_col, channel, ev, dispatched, lastSet>>

UtilNext == GenerateCall \/ ShortenCall

UtilSpec == Init /\ [][UtilNext]_vars

\* The event loop resumes a coroutine whose awaited call has ended.
FairSpec ==
    /\ Spec
    /\ \A e \in Events : WF_vars(CopyReturn(e)) /\ WF_vars(ReplyReturn(e))

----------------------------------------------------------------------------
\* Vocabulary of the properties.

Did(rec, op, ok) == \E i \in DOMAIN rec.steps : rec.steps[i] = [op |-> op, ok |-> ok]
Tried(rec, op) == \E i \in DOMAIN rec.steps : rec.steps[i].op = op
Ended(rec) == rec.pc \in {"done", "raised"}
NoStepFailed(rec) == \A i \in DOMAIN rec.steps : rec.steps[i].ok
Moved(e) == ev'[e] # ev[e]

\* getCredential(userId) as upload_media does it: find_one and the apiKey test.
getCredential(u) ==
    LET user_api == find_one(user_apis, "userId", u)
    IN  IF HasApiKey(user_api) THEN user_api.apiKey ELSE NoString

\* lookup(mappingId) of the retrieval side: the message_id of the document
\* find_one gives for the id.
lookup(m) ==
    LET doc == find_one(mappings_col, "mapping", m)
    IN  IF doc = None THEN 0 ELSE doc.message_id

----------------------------------------------------------------------------
\* C1: no two documents of the mapping store share a mapping id, whatever
\* uploads ran and whatever ids they drew.
C1_UniqueMappingIds ==
    \A i, j \in DOMAIN mappings_col :
        mappings_col[i].mapping = mappings_col[j].mapping => i = j

\* C2: an upload whose credential lookup finds no apiKey (no document, or a
\* document without apiKey) issues the "set your API key" reply and nothing
\* else: in every step of that upload the three collections and the storage
\* channel stay as they are, and the upload never copies, inserts or calls
\* the shortening service.
C2_NoCredentialNoEffects ==
    [][\A e \in Events :
        (/\ Moved(e)
         /\ ev'[e].kind = "upload"
         /\ Did(ev'[e], "find_one", TRUE)
         /\ IF ev[e].pc = "new"
            THEN ~HasApiKey(find_one(user_apis, "userId", ev'[e].user))
            ELSE ev[e].api_key = NoString)
        => /\ ev'[e].replies = <<[text |-> SetApiFirstText, reply_to |-> NoReplyTo]>>
           /\ ev'[e].api_key = NoString
           /\ ev'[e].pc \in {"reply_x", "done", "raised"}
           /\ ev[e].pc = "new" => ev'[e].pc = "reply_x"
           /\ \A i \in DOMAIN ev'[e].steps : ev'[e].steps[i].op \in {"find_one", "reply"}
           /\ UNCHANGED <<user_apis, mappings_col, links_col, channel>>]_vars

\* C2 witness: an upload of a user without apiKey has ended after its reply,
\* while the stores hold what other events put there.
C2_Witness ==
    \E e \in Events :
        /\ ev[e].kind = "upload" /\ ev[e].pc = "done"
        /\ Did(ev[e], "find_one", TRUE) /\ ev[e].api_key = NoString
        /\ ev[e].replies = <<[text |-> SetApiFirstText, reply_to |-> NoReplyTo]>>
        /\ Len(user_apis) > 0

\* C3: an upload whose copy and mapping insert succeeded and whose
\* shortening call failed ends with the shortening-failure reply as its one
\* reply, its mapping document still stored and no link document of its own.
C3_ShorteningFailure ==
    \A e \in Events :
        (/\ ev[e].kind = "upload" /\ Ended(ev[e])
         /\ Did(ev[e], "copy", TRUE)
         /\ Did(ev[e], "insert_mapping", TRUE)
         /\ Did(ev[e], "shorten", FALSE))
        => /\ ev[e].replies = <<[text |-> ShortenFailedText, reply_to |-> e]>>
           /\ \E i \in DOMAIN mappings_col :
                mappings_col[i] = [mapping |-> ev[e].mapping_id,
                                   message_id |-> ev[e].stored_msg_id]
           /\ ev[e].linkIdx = 0
           /\ ~Tried(ev[e], "insert_link")

\* C4: an upload that completes (copy, mapping insert, shortening call, link
\* insert and reply all succeeded, short url s) has replied exactly s to its
\* inbound message; the mapping store holds its 6-character id m with the
\* message id the copy got in the storage channel, and the link store holds
\* longURL = WORKER_DOMAIN + "/" + m with shortURL = s.
C4_Completed ==
    \A e \in Events :
        (/\ ev[e].kind = "upload" /\ ev[e].pc = "done"
         /\ Did(ev[e], "shorten", TRUE)
         /\ NoStepFailed(ev[e]))
        => LET m == ev[e].mapping_id
               s == ev[e].short_url
           IN  /\ s \in ShortUrls
               /\ ev[e].replies = <<[text |-> s, reply_to |-> e]>>
               /\ m \in [1..6 -> Range(chars)]
               /\ ev[e].stored_msg_id \in DOMAIN channel
               /\ channel[ev[e].stored_msg_id] = e
               /\ \E i \in DOMAIN mappings_col :
                    mappings_col[i] = [mapping |-> m, message_id |-> ev[e].stored_msg_id]
               /\ \E i \in DOMAIN links_col :
                    links_col[i] = [longURL |-> <<WORKER_DOMAIN, "/">> \o m, shortURL |-> s]

\* C4 witness: an upload has completed.
C4_Witness ==
    \E e \in Events :
        /\ ev[e].kind = "upload" /\ ev[e].pc = "done"
        /\ Did(ev[e], "shorten", TRUE) /\ NoStepFailed(ev[e])
        /\ Len(links_col) > 0

\* C5: an upload adds a mapping document only under an id that no stored
\* document had when it inserted: a colliding id is redrawn, and after the
\* last allowed collision the upload adds nothing.
C5_CollisionRetried ==
    \A e \in Events :
        ev[e].mapIdx > 0 =>
            \A j \in 1..(ev[e].mapIdx - 1) :
                j \in DOMAIN mappings_col =>
                    mappings_col[j].mapping # ev[e].mapping_id

\* C6: from the insert on, a lookup of the id an upload inserted gives the
\* message id that upload stored with it.
C6_LookupRoundTrip ==
    \A e \in Events :
        Did(ev[e], "insert_mapping", TRUE) =>
            lookup(ev[e].mapping_id) = ev[e].stored_msg_id

\* C7: for every user the credential lookup gives the key of the user's
\* last /set_api command that was carried out, and "not found" for a user
\* who never set one, whatever other users set and whatever uploads ran.
C7_LastWriteWins ==
    \A u \in Users : getCredential(u) = lastSet[u]

\* C7 witness: a user has set a key twice, different keys, and another
\* user's command or an upload ran as well.
C7_Witness ==
    \E e1, e2 \in Events :
        /\ e1 < e2
        /\ ev[e1].kind = "set_api" /\ ev[e2].kind = "set_api"
        /\ ev[e1].user = ev[e2].user
        /\ Did(ev[e1], "update_one", TRUE) /\ Did(ev[e2], "update_one", TRUE)
        /\ getCredential(ev[e1].user) = "k2"
        /\ getCredential(3 - ev[e1].user) = NoString

\* C8: an upload whose msg.copy failed issues the generic failure reply and
\* persists nothing: in every step of that upload the mapping store, the
\* link store and the storage channel stay as they are, it makes no
\* shortening call, and the step that starts an upload changes no store.
C8_ArchiveFailure ==
    [][\A e \in Events :
        /\ (Moved(e) /\ Did(ev'[e], "copy", FALSE))
            => /\ UNCHANGED <<mappings_col, links_col, channel, user_apis>>
               /\ ev'[e].replies = <<[text |-> UploadFailedText, reply_to |-> e]>>
               /\ ev'[e].pc \in {"reply_x", "done", "raised"}
               /\ ev'[e].mapIdx = 0 /\ ev'[e].linkIdx = 0
               /\ \A i \in DOMAIN ev'[e].steps :
                    ev'[e].steps[i].op \in {"find_one", "copy", "reply"}
        /\ (ev[e].pc = "new" /\ ev'[e].kind = "upload")
            => UNCHANGED <<mappings_col, links_col, channel, user_apis>>]_vars

\* C8 witness: an upload whose copy failed has ended, and the mapping store
\* holds a document of another upload.
C8_Witness ==
    \E e \in Events :
        /\ Did(ev[e], "copy", FALSE) /\ ev[e].pc = "done"
        /\ Len(mappings_col) > 0

\* C9: no upload handler is left by an exception, and an upload that ended
\* otherwise than completed has issued exactly one reply.
C9_NothingUncaught ==
    \A e \in Events :
        ev[e].kind = "upload" =>
            /\ ev[e].pc # "raised"
            /\ (ev[e].pc = "done" /\ ~NoStepFailed(ev[e])) => Len(ev[e].replies) = 1

\* C10: the credential store holds at most one document per userId, also
\* while /set_api commands of one user are in flight together, and applying
\* the upsert of (u, k) a second time changes nothing.
C10_IdempotentUpsert ==
    /\ \A u \in Users :
        Cardinality({i \in DOMAIN user_apis : user_apis[i].userId = u}) <= 1
    /\ \A u \in Users, k \in ApiKeys :
        LET once == update_one_upsert(user_apis, u, k)
        IN  /\ update_one_upsert(once, u, k) = once
            /\ Cardinality({i \in DOMAIN once : once[i].userId = u}) = 1

\* C10 witness: two /set_api commands of one user are in flight together,
\* both applied.
C10_Witness ==
    \E e1, e2 \in Events :
        /\ e1 # e2
        /\ ev[e1].kind = "set_api" /\ ev[e2].kind = "set_api"
        /\ ev[e1].user = ev[e2].user
        /\ ev[e1].pc = "reply_x" /\ ev[e2].pc = "reply_x"
        /\ Did(ev[e1], "update_one", TRUE) /\ Did(ev[e2], "update_one", TRUE)

----------------------------------------------------------------------------
\* Positions in the history of a handler's calls.
StepsAt(rec, op) == {i \in DOMAIN rec.steps : rec.steps[i].op = op}
StepsOk(rec, op) == {i \in DOMAIN rec.steps : rec.steps[i] = [op |-> op, ok |-> TRUE]}

\* The mapping documents an upload created: those holding the message id its
\* copy got in the storage channel.
MappingsOf(rec) ==
    {i \in DOMAIN mappings_col : mappings_col[i].message_id = rec.stored_msg_id}

\* C11 as stated: every upload whose copy succeeded has, once the step after
\* the copy is taken, exactly one mapping document of its own.
C11_ExactlyOneMapping ==
    \A e \in Events :
        (ev[e].kind = "upload" /\ Did(ev[e], "copy", TRUE))
            => Cardinality(MappingsOf(ev[e])) = 1

\* C11 amended: an upload whose copy succeeded has at most one mapping
\* document of its own, and exactly one unless its insert_one raised; the
\* document is inserted after the copy and before the shortening call, and
\* no upload calls the shortening service without its document stored.
C11_MappingBeforeShortening ==
    \A e \in Events :
        ev[e].kind = "upload" =>
            LET rec    == ev[e]
                copied == Did(rec, "copy", TRUE)
                docs   == Cardinality(MappingsOf(rec))
                ins    == StepsAt(rec, "insert_mapping")
                ins_ok == StepsOk(rec, "insert_mapping")
            IN  /\ copied =>
                    /\ docs <= 1
                    /\ Cardinality(ins) = 1
                    /\ (ins_ok # {}) <=> (docs = 1)
                /\ ~copied => ins = {}
                /\ \A i \in ins : \E c \in StepsOk(rec, "copy") : c < i
                /\ \A k \in StepsAt(rec, "shorten") :
                    /\ \E i \in ins_ok : i < k
                    /\ \E j \in DOMAIN mappings_col :
                        mappings_col[j] = [mapping |-> rec.mapping_id,
                                           message_id |-> rec.stored_msg_id]

\* C11 witness: an upload has its document stored and its shortening call
\* made, and another upload's insert raised after its copy.
C11_Witness ==
    \E e1, e2 \in Events :
        /\ Tried(ev[e1], "shorten") /\ Cardinality(MappingsOf(ev[e1])) = 1
        /\ Did(ev[e2], "copy", TRUE) /\ Did(ev[e2], "insert_mapping", FALSE)

\* C12: an upload copies into the storage channel at most once and calls
\* the shortening service at most once, and after a failed shortening call
\* it does nothing but reply.
C12_NothingRetried ==
    \A e \in Events :
        ev[e].kind = "upload" =>
            LET steps == ev[e].steps
            IN  /\ \A i, j \in DOMAIN steps :
                    (steps[i].op = steps[j].op /\ steps[i].op \in {"copy", "shorten"})
                        => i = j
                /\ \A i, j \in DOMAIN channel :
                    (channel[i] = e /\ channel[j] = e) => i = j
                /\ \A k \in DOMAIN steps :
                    (steps[k].op = "shorten" /\ ~steps[k].ok) =>
                        \A i \in DOMAIN steps : i > k => steps[i].op = "reply"

\* C12 witness: an upload has ended after a failed shortening call.
C12_Witness ==
    \E e \in Events :
        /\ ev[e].kind = "upload" /\ Ended(ev[e])
        /\ Did(ev[e], "shorten", FALSE)
        /\ Cardinality({i \in DOMAIN channel : channel[i] = e}) = 1

\* A failure reply of upload_media was issued.
FailureReplied(rec) ==
    \E i \in DOMAIN rec.replies :
        rec.replies[i].text \in {SetApiFirstText, ShortenFailedText, UploadFailedText}

\* The terminal states C13 names: completed with the short url replied, or
\* ended with a failure reply issued.
Completed(rec) ==
    /\ rec.pc = "done" /\ Did(rec, "shorten", TRUE) /\ NoStepFailed(rec)
    /\ \E i \in DOMAIN rec.replies : rec.replies[i].text = rec.short_url

\* C13: an upload that has ended, and so stays as it is for ever, is
\* completed or has issued a failure reply; a begun upload that ends
\* otherwise never reaches one of the two terminal states of the claim.
C13_TerminalReported ==
    \A e \in Events :
        (ev[e].kind = "upload" /\ Ended(ev[e]))
            => (Completed(ev[e]) \/ FailureReplied(ev[e]))

\* Under FairSpec every begun upload does end (its handler returns or is
\* left by an exception): the part of C13 that the code keeps.
UploadsTerminate ==
    \A e \in Events : (ev[e].kind = "upload") ~> Ended(ev[e])

\* C14: no two documents of the link store have the same longURL, so a
\* mapping id has at most one link document, and every link document
\* belongs to an upload whose shortening call succeeded.
C14_OneLinkPerMapping ==
    /\ \A i, j \in DOMAIN links_col :
        links_col[i].longURL = links_col[j].longURL => i = j
    /\ \A i \in DOMAIN links_col :
        \E e \in Events :
            /\ Did(ev[e], "shorten", TRUE)
            /\ links_col[i] = [longURL  |-> <<WORKER_DOMAIN, "/">> \o ev[e].mapping_id,
                               shortURL |-> ev[e].short_url]

\* The 62 alphanumeric characters, written out.
Alphanumeric ==
    { "a", "b", "c", "d", "e", "f", "g", "h", "i", "j", "k", "l", "m",
      "n", "o", "p", "q", "r", "s", "t", "u", "v", "w", "x", "y", "z",
      "A", "B", "C", "D", "E", "F", "G", "H", "I", "J", "K", "L", "M",
      "N", "O", "P", "Q", "R", "S", "T", "U", "V", "W", "X", "Y", "Z",
      "0", "1", "2", "3", "4", "5", "6", "7", "8", "9" }

\* C15: shorten_url returns the service's shortenedUrl exactly when the
\* answer is a JSON object with status "success" and a non-empty
\* shortenedUrl; for every other answer (other status, no or empty
\* shortenedUrl, other JSON, malformed body, network error, timeout) it
\* returns the one failure value "", and it always returns.
C15_ShortenOutcome ==
    util.fn = "shorten_url" =>
        LET r  == util.response
            ok == /\ r.kind = "json_dict"
                  /\ "status" \in DOMAIN r.data
                  /\ r.data.status = "success"
                  /\ "shortenedUrl" \in DOMAIN r.data
                  /\ r.data.shortenedUrl # ""
        IN  /\ ok => util.result = r.data.shortenedUrl
            /\ ~ok => util.result = ""

\* C15 witness: an answer with a status other than "success" carried a
\* shortenedUrl and the call returned the failure value.
C15_Witness ==
    /\ util.fn = "shorten_url"
    /\ util.response.kind = "json_dict"
    /\ "shortenedUrl" \in DOMAIN util.response.data
    /\ "status" \in DOMAIN util.response.data
    /\ util.response.data.status # "success"
    /\ util.result = ""

\* C18: every id the generator returns has the requested length and only
\* characters of the 62 alphanumeric ones.
C18_IdShape ==
    /\ Cardinality(Alphanumeric) = 62
    /\ util.fn = "generate_mapping_id" =>
        /\ Len(util.result) = util.length
        /\ \A i \in 1..Len(util.result) : util.result[i] \in Alphanumeric

\* C18 witness: an id of the longest enumerated length was returned that
\* ends in the last character of the alphabet.
C18_Witness ==
    /\ util.fn = "generate_mapping_id"
    /\ util.length = MaxLength
    /\ util.result[MaxLength] = "9"

\* C16 as stated: every reply of an upload references the upload's own
\* inbound message.
C16_AllRepliesReference ==
    \A e \in Events :
        ev[e].kind = "upload" =>
            \A i \in DOMAIN ev[e].replies : ev[e].replies[i].reply_to = e

\* C16 amended: the short url, the shortening-failure reply and the generic
\* failure reply of an upload reference the upload's own inbound message;
\* the "set your API key" reply is a plain message; no reply references the
\* inbound message of another upload.
C16_RepliesReferenceOwnMessage ==
    \A e \in Events :
        ev[e].kind = "upload" =>
            \A i \in DOMAIN ev[e].replies :
                IF ev[e].replies[i].text = SetApiFirstText
                THEN ev[e].replies[i].reply_to = NoReplyTo
                ELSE ev[e].replies[i].reply_to = e

\* C16 witness: two uploads of one user are in flight together, each with a
\* reply issued.
C16_Witness ==
    \E e1, e2 \in Events :
        /\ e1 # e2
        /\ ev[e1].kind = "upload" /\ ev[e2].kind = "upload"
        /\ ev[e1].user = ev[e2].user
        /\ ev[e1].pc = "reply" /\ ev[e2].pc \in {"reply", "reply_x"}
        /\ ev[e1].replies # <<>> /\ ev[e2].replies # <<>>
        /\ ev[e2].replies[1].text # SetApiFirstText

\* C17: a /set_api command without argument issues the usage reply, calls
\* no update_one and leaves the credential store as it is, so that every
\* user's lookup gives what it gave before.
C17_UsageError ==
    [][\A u \in Users :
        SetApi(u, <<>>) =>
            /\ user_apis' = user_apis
            /\ lastSet' = lastSet
            /\ ev'[dispatched'].replies = <<[text |-> UsageText, reply_to |-> NoReplyTo]>>
            /\ ~Tried(ev'[dispatched'], "update_one")]_vars

\* C17 witness: a user with a stored key has sent /set_api without argument
\* and the key is still the one the lookup gives; the other user has no
\* document.
C17_Witness ==
    \E e \in Events :
        /\ ev[e].kind = "set_api"
        /\ ev[e].replies = <<[text |-> UsageText, reply_to |-> NoReplyTo]>>
        /\ getCredential(ev[e].user) = "k2"
        /\ find_one(user_apis, "userId", 3 - ev[e].user) = None

\* C19: every link document has the longURL WORKER_DOMAIN + "/" + m of a
\* stored mapping id m, and a non-empty shortURL.
C19_LinkRefersToMapping ==
    \A i \in DOMAIN links_col :
        /\ \E j \in DOMAIN mappings_col :
            links_col[i].longURL = <<WORKER_DOMAIN, "/">> \o mappings_col[j].mapping
        /\ links_col[i].shortURL # ""

\* C19 witness: a link document is stored, next to the mapping document of
\* an upload that has none.
C19_Witness ==
    /\ Len(links_col) = 1
    /\ Len(mappings_col) = 2

\* C20: an upload reads its user's key when it starts, the key of the
\* user's last applied /set_api, keeps it whatever is set afterwards, and
\* passes it to its shortening call; no step of an upload changes the
\* credential store.
C20_OwnKeyUsed ==
    [][\A e \in Events :
        (Moved(e) /\ ev'[e].kind = "upload") =>
            /\ user_apis' = user_apis
            /\ (ev[e].pc = "new" /\ Did(ev'[e], "find_one", TRUE))
                => ev'[e].api_key = lastSet[ev'[e].user]
            /\ ev[e].pc # "new" => ev'[e].api_key = ev[e].api_key
            /\ Tried(ev'[e], "shorten")
                => /\ ev'[e].shorten_key = ev'[e].api_key
                   /\ ev'[e].shorten_key \in ApiKeys]_vars

\* C20 witness: an upload has called the shortening service with the key it
\* read, after its user stored another key.
C20_Witness ==
    \E e \in Events :
        /\ ev[e].kind = "upload" /\ Tried(ev[e], "shorten")
        /\ ev[e].shorten_key = "k1"
        /\ getCredential(ev[e].user) = "k2"

====
